---------------------------- MODULE Spec2Model ----------------------------
(* A model of src/zone2-analyzer.py: the cardiac drift estimator, the      *)
(* decision generator, the duration parser, the history store and the      *)
(* main pipeline that chains them.                                         *)
(*                                                                         *)
(* Numbers.  Heart rates, counts and durations are integers.  Speeds are   *)
(* tenths of km/h (the CSV carries one decimal).  Every value the program  *)
(* holds as a float64 and compares or stores (the quarter means, the       *)
(* drifts, the weights, the weighted average) is modelled bit for bit as   *)
(* an IEEE-754 binary64: a sign, a 53-bit significand kept as a little-    *)
(* endian sequence of 15-bit limbs, and an exponent, every operation       *)
(* rounding to nearest, ties to even.                                      *)
EXTENDS Integers, Sequences, FiniteSets, TLC

VARIABLES
    pc,                \* the statement of __main__ about to run, or how the run ended
    exc,               \* the exception the run ended with, "none" if none
    argv,              \* the CSV file named on the command line
    data, attributes, date, minutes, drift_matrix, decision,  \* __main__'s names
    workout_history,   \* the file workout_history.json
    history_at_start,  \* that file as the current run found it
    saved,             \* the decisions of the calls of save_decision_to_json that returned
    writes,            \* how often the current run has opened the file for writing
    runs               \* the runs started so far

vars == <<pc, exc, argv, data, attributes, date, minutes, drift_matrix, decision,
          workout_history, history_at_start, saved, writes, runs>>

---------------------------------------------------------------------------
(* Natural numbers of any size: little-endian sequences of limbs.          *)

LimbBits == 15
Base == 2^LimbBits

Tl(x) == IF x = <<>> THEN <<>> ELSE Tail(x)
Hd(x) == IF x = <<>> THEN 0 ELSE Head(x)

RECURSIVE BNorm(_)
BNorm(x) ==
    IF x = <<>> THEN <<>>
    ELSE IF x[Len(x)] = 0 THEN BNorm(SubSeq(x, 1, Len(x) - 1)) ELSE x

RECURSIVE BFromInt(_)
BFromInt(k) == IF k = 0 THEN <<>> ELSE <<k % Base>> \o BFromInt(k \div Base)

RECURSIVE BAddC(_, _, _)
BAddC(x, y, c) ==
    IF x = <<>> /\ y = <<>> THEN (IF c = 0 THEN <<>> ELSE <<c>>)
    ELSE <<(Hd(x) + Hd(y) + c) % Base>>
         \o BAddC(Tl(x), Tl(y), (Hd(x) + Hd(y) + c) \div Base)

BAdd(x, y) == BAddC(x, y, 0)

(* x - y for x >= y *)
RECURSIVE BSubC(_, _, _)
BSubC(x, y, b) ==
    IF x = <<>> THEN <<>>
    ELSE <<(Head(x) - Hd(y) - b + Base) % Base>>
         \o BSubC(Tail(x), Tl(y), IF Head(x) - Hd(y) - b < 0 THEN 1 ELSE 0)

BSub(x, y) == BNorm(BSubC(x, y, 0))

(* -1, 0, 1 as x <, =, > y; both without leading zero limbs *)
RECURSIVE BCmpFrom(_, _, _)
BCmpFrom(x, y, i) ==
    IF i = 0 THEN 0
    ELSE IF x[i] < y[i] THEN -1
    ELSE IF x[i] > y[i] THEN 1
    ELSE BCmpFrom(x, y, i - 1)

BCmp(x, y) ==
    IF Len(x) < Len(y) THEN -1
    ELSE IF Len(x) > Len(y) THEN 1
    ELSE BCmpFrom(x, y, Len(x))

(* x * k for 0 <= k < Base *)
RECURSIVE BMulSmallC(_, _, _)
BMulSmallC(x, k, c) ==
    IF x = <<>> THEN (IF c = 0 THEN <<>> ELSE <<c>>)
    ELSE <<(Head(x) * k + c) % Base>>
         \o BMulSmallC(Tail(x), k, (Head(x) * k + c) \div Base)

BMulSmall(x, k) == BNorm(BMulSmallC(x, k, 0))

RECURSIVE BMul(_, _)
BMul(x, y) ==
    IF y = <<>> \/ x = <<>> THEN <<>>
    ELSE BNorm(BAdd(BMulSmall(x, Head(y)),
                    IF Tail(y) = <<>> THEN <<>> ELSE <<0>> \o BMul(x, Tail(y))))

(* quotient and remainder of x by d, 0 < d < 2 * Base *)
RECURSIVE BDivRem(_, _)
BDivStep(hi, lo, d) ==
    [q |-> <<(hi.r * Base + lo) \div d>> \o hi.q, r |-> (hi.r * Base + lo) % d]
BDivRem(x, d) ==
    IF x = <<>> THEN [q |-> <<>>, r |-> 0]
    ELSE BDivStep(BDivRem(Tail(x), d), Head(x), d)

ZeroLimbs(n) == [i \in 1..n |-> 0]

(* x * 2^k *)
BShl(x, k) ==
    IF x = <<>> THEN <<>>
    ELSE ZeroLimbs(k \div LimbBits) \o BMulSmall(x, 2^(k % LimbBits))

(* floor(x / 2^k) *)
BShr(x, k) ==
    IF k \div LimbBits >= Len(x) THEN <<>>
    ELSE BNorm(BDivRem(SubSeq(x, (k \div LimbBits) + 1, Len(x)),
                       2^(k % LimbBits)).q)

RECURSIVE IntBitLen(_)
IntBitLen(k) == IF k = 0 THEN 0 ELSE 1 + IntBitLen(k \div 2)

BitLen(x) ==
    IF x = <<>> THEN 0 ELSE (Len(x) - 1) * LimbBits + IntBitLen(x[Len(x)])

BIsOdd(x) == x # <<>> /\ Head(x) % 2 = 1

---------------------------------------------------------------------------
(* Dyadic rationals (-1)^neg * mag * 2^exp, and the float64 among them:    *)
(* zero, or a magnitude of exactly MantBits bits.  Exponent range and      *)
(* subnormals are left out: every value here lies within 2^-200 .. 2^200.  *)

MantBits == 53

FZero == [neg |-> FALSE, mag |-> <<>>, exp |-> 0]

(* round to nearest, ties to even, to MantBits bits *)
RoundShift(mag, sh) ==
    IF BCmp(BSub(mag, BShl(BShr(mag, sh), sh)), BShl(<<1>>, sh - 1)) = 1
       \/ (BCmp(BSub(mag, BShl(BShr(mag, sh), sh)), BShl(<<1>>, sh - 1)) = 0
           /\ BIsOdd(BShr(mag, sh)))
    THEN BAdd(BShr(mag, sh), <<1>>)
    ELSE BShr(mag, sh)

Renorm(neg, mag, exp) ==
    IF BitLen(mag) > MantBits
    THEN [neg |-> neg, mag |-> BShr(mag, 1), exp |-> exp + 1]
    ELSE [neg |-> neg, mag |-> mag, exp |-> exp]

Round53(d) ==
    IF d.mag = <<>> THEN FZero
    ELSE IF BitLen(d.mag) > MantBits
    THEN Renorm(d.neg, RoundShift(d.mag, BitLen(d.mag) - MantBits),
                d.exp + BitLen(d.mag) - MantBits)
    ELSE [neg |-> d.neg, mag |-> BShl(d.mag, MantBits - BitLen(d.mag)),
          exp |-> d.exp - (MantBits - BitLen(d.mag))]

Abs(k) == IF k < 0 THEN -k ELSE k
Min2(a, b) == IF a < b THEN a ELSE b

DFromInt(k) == [neg |-> k < 0, mag |-> BFromInt(Abs(k)), exp |-> 0]
DNeg(x) == IF x.mag = <<>> THEN x ELSE [x EXCEPT !.neg = ~x.neg]

DMul(x, y) ==
    IF x.mag = <<>> \/ y.mag = <<>> THEN FZero
    ELSE [neg |-> x.neg # y.neg, mag |-> BMul(x.mag, y.mag), exp |-> x.exp + y.exp]

(* the two magnitudes brought to the exponent e *)
DAddAligned(x, y, xm, ym, e) ==
    IF x.neg = y.neg THEN [neg |-> x.neg, mag |-> BAdd(xm, ym), exp |-> e]
    ELSE IF BCmp(xm, ym) = 0 THEN FZero
    ELSE IF BCmp(xm, ym) = 1 THEN [neg |-> x.neg, mag |-> BSub(xm, ym), exp |-> e]
    ELSE [neg |-> y.neg, mag |-> BSub(ym, xm), exp |-> e]

DAdd(x, y) ==
    IF x.mag = <<>> THEN y
    ELSE IF y.mag = <<>> THEN x
    ELSE DAddAligned(x, y, BShl(x.mag, x.exp - Min2(x.exp, y.exp)),
                     BShl(y.mag, y.exp - Min2(x.exp, y.exp)), Min2(x.exp, y.exp))

DSign(x) == IF x.mag = <<>> THEN 0 ELSE IF x.neg THEN -1 ELSE 1
DLess(x, y) == DSign(DAdd(x, DNeg(y))) = -1
DLeq(x, y) == DSign(DAdd(x, DNeg(y))) <= 0

(* float64 operations *)
FFromInt(k) == Round53(DFromInt(k))
FAdd(x, y) == Round53(DAdd(x, y))
FSub(x, y) == Round53(DAdd(x, DNeg(y)))
FMul(x, y) == Round53(DMul(x, y))

(* a / b for integers a and 0 < b < 2 * Base, correctly rounded: the        *)
(* quotient to DivBits fractional bits with a sticky bit below.            *)
DivBits == 70
DivSticky(neg, qr) ==
    [neg |-> neg,
     mag |-> BAdd(BShl(BNorm(qr.q), 1), IF qr.r = 0 THEN <<>> ELSE <<1>>),
     exp |-> -(DivBits + 1)]
FDivInt(a, b) ==
    IF a = 0 THEN FZero
    ELSE Round53(DivSticky(a < 0, BDivRem(BShl(BFromInt(Abs(a)), DivBits), b)))

(* the neighbouring float64 values of a positive normal x *)
FSucc(x) == Renorm(x.neg, BAdd(x.mag, <<1>>), x.exp)
FPred(x) ==
    IF BitLen(BSub(x.mag, <<1>>)) < MantBits
    THEN [neg |-> x.neg, mag |-> BSub(BShl(x.mag, 1), <<1>>), exp |-> x.exp - 1]
    ELSE [neg |-> x.neg, mag |-> BSub(x.mag, <<1>>), exp |-> x.exp]

---------------------------------------------------------------------------
(* get_minutes_from_duration_string.  A string is a sequence of one-        *)
(* character strings; a result is a value or the exception raised.         *)

Ok(v) == [ok |-> TRUE, val |-> v, err |-> "none"]
Raise(e) == [ok |-> FALSE, val |-> 0, err |-> e]

Digits == {"0", "1", "2", "3", "4", "5", "6", "7", "8", "9"}

DigitVal(c) ==
    CASE c = "0" -> 0 [] c = "1" -> 1 [] c = "2" -> 2 [] c = "3" -> 3
      [] c = "4" -> 4 [] c = "5" -> 5 [] c = "6" -> 6 [] c = "7" -> 7
      [] c = "8" -> 8 [] c = "9" -> 9

(* str.split(':'): the fields between the separators, at least one *)
RECURSIVE split(_)
SplitCons(c, rest) == <<(<<c>> \o Head(rest))>> \o Tail(rest)
split(s) ==
    IF s = <<>> THEN << <<>> >>
    ELSE IF Head(s) = ":" THEN << <<>> >> \o split(Tail(s))
    ELSE SplitCons(Head(s), split(Tail(s)))

(* str.strip() of blanks *)
RECURSIVE LStrip(_)
LStrip(s) == IF s # <<>> /\ Head(s) = " " THEN LStrip(Tail(s)) ELSE s
RECURSIVE RStrip(_)
RStrip(s) ==
    IF s # <<>> /\ s[Len(s)] = " " THEN RStrip(SubSeq(s, 1, Len(s) - 1)) ELSE s

RECURSIVE DecimalValue(_, _)
DecimalValue(s, acc) ==
    IF s = <<>> THEN acc ELSE DecimalValue(Tail(s), 10 * acc + DigitVal(Head(s)))

AllDigits(s) == s # <<>> /\ \A i \in 1..Len(s) : s[i] \in Digits

(* int(str): blanks stripped, an optional sign, then decimal digits.       *)
(* Underscore digit separators and non-ASCII digits are outside the        *)
(* alphabet of the strings considered.                                     *)
IntOfUnsigned(s) == IF AllDigits(s) THEN Ok(DecimalValue(s, 0)) ELSE Raise("ValueError")
IntOfSigned(s) ==
    IF s # <<>> /\ Head(s) = "-"
    THEN (IF AllDigits(Tail(s)) THEN Ok(-DecimalValue(Tail(s), 0)) ELSE Raise("ValueError"))
    ELSE IF s # <<>> /\ Head(s) = "+" THEN IntOfUnsigned(Tail(s))
    ELSE IntOfUnsigned(s)
int(s) == IntOfSigned(RStrip(LStrip(s)))

(* a variant that rounds the seconds to the nearest minute *)
MinutesOfFieldsRounded(duration) ==
    IF ~int(duration[1]).ok THEN Raise("ValueError")
    ELSE IF Len(duration) < 2 THEN Raise("IndexError")
    ELSE IF ~int(duration[2]).ok THEN Raise("ValueError")
    ELSE Ok(int(duration[1]).val * 60 + int(duration[2]).val
            + (IF Len(duration) >= 3 /\ int(duration[3]).ok /\ int(duration[3]).val >= 30
               THEN 1 ELSE 0))

(* int(duration[0])*60 + int(duration[1]), evaluated left to right *)
MinutesOfFields(duration) ==
    IF ~int(duration[1]).ok THEN Raise("ValueError")
    ELSE IF Len(duration) < 2 THEN Raise("IndexError")
    ELSE IF ~int(duration[2]).ok THEN Raise("ValueError")
    ELSE Ok(int(duration[1]).val * 60 + int(duration[2]).val)

get_minutes_from_duration_string(duration_string) ==
    MinutesOfFields(split(duration_string))

---------------------------------------------------------------------------
(* generate_workout_decisions.  A drift table is the sequence of its rows  *)
(* in index order: [speed, drift, bin_count], speed the bucket in tenths   *)
(* of km/h, drift a float64, bin_count an integer.                         *)

RECURSIVE BinCountSum(_)
BinCountSum(rows) ==
    IF rows = <<>> THEN 0 ELSE Head(rows).bin_count + BinCountSum(Tail(rows))

(* the weight of a row: bin_count / bin_count.sum() *)
Weight(row, total) == FDivInt(row.bin_count, total)

(* Series.sum() of the products, in index order (fewer than eight rows:    *)
(* a plain left-to-right loop); an empty Series sums to 0.0                *)
RECURSIVE SumProducts(_, _, _)
SumProducts(rows, total, acc) ==
    IF rows = <<>> THEN acc
    ELSE SumProducts(Tail(rows), total,
                     FAdd(acc, FMul(Head(rows).drift, Weight(Head(rows), total))))

(* a variant that divides by the number of rows, not by bin_count.sum() *)
avg_drift_per_row(drift_results) ==
    SumProducts(drift_results, Len(drift_results), FZero)

avg_drift(drift_results) ==
    SumProducts(drift_results, BinCountSum(drift_results), FZero)

(* a variant whose first rung takes 3 in *)
category_inclusive(avg) ==
    IF DLeq(avg, FFromInt(3)) THEN "Elite"
    ELSE IF DLess(avg, FFromInt(4)) THEN "Excellent"
    ELSE IF DLess(avg, FFromInt(6)) THEN "Good"
    ELSE IF DLess(avg, FFromInt(8)) THEN "Fair"
    ELSE "Poor"

category(avg) ==
    IF DLess(avg, FFromInt(3)) THEN "Elite"
    ELSE IF DLess(avg, FFromInt(4)) THEN "Excellent"
    ELSE IF DLess(avg, FFromInt(6)) THEN "Good"
    ELSE IF DLess(avg, FFromInt(8)) THEN "Fair"
    ELSE "Poor"

RECURSIVE BToInt(_)
BToInt(x) == IF x = <<>> THEN 0 ELSE Head(x) + Base * BToInt(Tail(x))

(* the integer nearest to a dyadic, ties to even *)
DRoundInt(d) ==
    IF d.mag = <<>> THEN 0
    ELSE (IF d.neg THEN -1 ELSE 1)
         * (IF d.exp >= 0 THEN BToInt(BShl(d.mag, d.exp))
            ELSE BToInt(RoundShift(d.mag, -d.exp)))

(* f"{avg_drift:.1f}": the exact value rounded to one decimal, in tenths *)
Format1f(avg) == DRoundInt(DMul(avg, DFromInt(10)))

(* round(avg_drift, 1) of a numpy float64: rint(x * 10.0) / 10.0 *)
round1(avg) == FDivInt(DRoundInt(FMul(avg, FFromInt(10))), 10)

Note(text, avg, mins) == [text |-> text, drift_1f |-> Format1f(avg), min |-> mins]

(* a variant whose second rung leaves 5.0 out *)
make_decision_strict(avg, duration_min) ==
    IF DLess(avg, FFromInt(3))
    THEN [decision |-> "extend much", next_duration |-> duration_min + 10,
          notes |-> Note("is super good. Ready to add 10 minutes.", avg, 0)]
    ELSE IF DLess(avg, FFromInt(5))
    THEN [decision |-> "extend", next_duration |-> duration_min + 5,
          notes |-> Note("is good. Ready to add 5 minutes.", avg, 0)]
    ELSE IF DLeq(avg, FFromInt(8))
    THEN [decision |-> "maintain", next_duration |-> duration_min,
          notes |-> Note("Keep building base at", avg, duration_min)]
    ELSE [decision |-> "reduce", next_duration |-> duration_min - 5,
          notes |-> Note("is high. Drop to .. and rebuild.", avg, duration_min - 5)]

(* the "Make decision" ladder *)
make_decision(avg, duration_min) ==
    IF DLess(avg, FFromInt(3))
    THEN [decision |-> "extend much", next_duration |-> duration_min + 10,
          notes |-> Note("is super good. Ready to add 10 minutes.", avg, 0)]
    ELSE IF DLeq(avg, FFromInt(5))
    THEN [decision |-> "extend", next_duration |-> duration_min + 5,
          notes |-> Note("is good. Ready to add 5 minutes.", avg, 0)]
    ELSE IF DLeq(avg, FFromInt(8))
    THEN [decision |-> "maintain", next_duration |-> duration_min,
          notes |-> Note("Keep building base at", avg, duration_min)]
    ELSE [decision |-> "reduce", next_duration |-> duration_min - 5,
          notes |-> Note("is high. Drop to .. and rebuild.", avg, duration_min - 5)]

(* keys of a Python dict / values of the index: the bucket as a float *)
PyKey(speed) == [str |-> FALSE, v |-> speed]

Speeds(rows) == {rows[i].speed : i \in 1..Len(rows)}
RowOf(rows, speed) == CHOOSE i \in 1..Len(rows) : rows[i].speed = speed

(* drift_results[['HR drift (BPM)', 'bin_count']].to_dict('index') *)
drift_details(rows) ==
    [k \in {PyKey(sp) : sp \in Speeds(rows)} |->
        [drift |-> rows[RowOf(rows, k.v)].drift,
         bin_count |-> rows[RowOf(rows, k.v)].bin_count]]

AssembleDecision(avg, made, drift_results, duration_min, date_label) ==
    [date |-> date_label,
     duration_min |-> duration_min,
     avg_drift_bpm |-> round1(avg),
     drift_details |-> drift_details(drift_results),
     fitness_category |-> category(avg),
     decision |-> made.decision,
     next_duration_min |-> made.next_duration,
     paces_analyzed |-> [i \in 1..Len(drift_results) |-> drift_results[i].speed],
     notes |-> made.notes]

generate_workout_decisions(drift_results, duration_min, date_label) ==
    AssembleDecision(avg_drift(drift_results),
                     make_decision(avg_drift(drift_results), duration_min),
                     drift_results, duration_min, date_label)

---------------------------------------------------------------------------
(* calculate_cardiac_drift_in_bins.  A data frame is the sequence of its   *)
(* rows [hr, speed]: hr an integer, speed in tenths of km/h, so that       *)
(* (speed // 0.5) * 0.5 is (speed \div 5) * 5 (0.5 is a power of two and   *)
(* the float floor division by it is exact).                               *)

bin_speed(workout_data) ==
    [i \in 1..Len(workout_data) |->
        [hr |-> workout_data[i].hr, speed |-> (workout_data[i].speed \div 5) * 5]]

(* iloc[n//4 : n//2] and iloc[3 * n//4 : ], rows counted from 1 here *)
Q2(workout_data, n) == SubSeq(workout_data, n \div 4 + 1, n \div 2)
Q4(workout_data, n) == SubSeq(workout_data, (3 * n) \div 4 + 1, n)

(* groupby("Speed (km/h)"): count, sum and sum of squares of HR in a group *)
NoStats == [count |-> 0, sum |-> 0, sumsq |-> 0]
OneSample(hr) == [count |-> 1, sum |-> hr, sumsq |-> hr * hr]
Pooled(x, y) ==
    [count |-> x.count + y.count, sum |-> x.sum + y.sum, sumsq |-> x.sumsq + y.sumsq]
(* the rows lo .. hi of the quarter, halved until a single row is left *)
RECURSIVE RangeStats(_, _, _, _)
RangeStats(quarter, b, lo, hi) ==
    IF lo > hi THEN NoStats
    ELSE IF lo = hi
    THEN (IF quarter[lo].speed = b THEN OneSample(quarter[lo].hr) ELSE NoStats)
    ELSE Pooled(RangeStats(quarter, b, lo, (lo + hi) \div 2),
                RangeStats(quarter, b, (lo + hi) \div 2 + 1, hi))
GroupStats(quarter, b) == RangeStats(quarter, b, 1, Len(quarter))

GroupKeys(quarter) == {quarter[i].speed : i \in 1..Len(quarter)}

(* stats.t.ppf(0.975, df) squared, times 10^4, rounded, for df = 1 .. 80 *)
TPpfSq ==
    <<
       1614476, 185128, 101280, 77086, 66079, 59874, 55914, 53177,
       51174, 49646, 48443, 47472, 46672, 46001, 45431, 44940,
       44513, 44139, 43807, 43512, 43248, 43009, 42793, 42597,
       42417, 42252, 42100, 41960, 41830, 41709, 41596, 41491,
       41393, 41300, 41213, 41132, 41055, 40982, 40913, 40847,
       40785, 40727, 40670, 40617, 40566, 40517, 40471, 40427,
       40384, 40343, 40304, 40266, 40230, 40195, 40162, 40130,
       40099, 40069, 40040, 40012, 39985, 39959, 39934, 39909,
       39886, 39863, 39840, 39819, 39798, 39778, 39758, 39739,
       39720, 39702, 39685, 39668, 39651, 39635, 39619, 39604 >>

(* conf_interval_95_width < 1, with                                        *)
(*   width = 2 * t.ppf(0.975, count - 1) * (stddev / count**0.5),          *)
(*   stddev^2 = (count * sumsq - sum^2) / (count * (count - 1)),           *)
(* squared and cleared of fractions:                                       *)
(*   t^2 * (count * sumsq - sum^2) < count^2 * (count - 1) / 4.            *)
(* A single sample has stddev NaN, the width is NaN and NaN < 1 is False.  *)
(* The table carries t^2 to five digits: the comparison is that of the     *)
(* program wherever the two sides differ by more than one part in 10^4.    *)
SumSqDev(g) == g.count * g.sumsq - g.sum * g.sum
width_below_1(g) ==
    /\ g.count >= 2
    /\ SumSqDev(g) <= (2500 * g.count * g.count * (g.count - 1) - 1)
                        \div TPpfSq[g.count - 1]

(* a variant that keeps a group of 25 *)
reliable_from_25(g) == width_below_1(g) /\ g.count >= 25

(* the filter of one quarter's groups *)
reliable(g) == width_below_1(g) /\ g.count > 25

(* one quarter's filtered result: its index and, per bucket, the row *)
quarter_index(quarter) == {b \in GroupKeys(quarter) : reliable(GroupStats(quarter, b))}
quarter_row(quarter, b) ==
    [avg |-> FDivInt(GroupStats(quarter, b).sum, GroupStats(quarter, b).count),
     bin_count |-> GroupStats(quarter, b).count]

(* results[0].join(results[1]).dropna(): the buckets of results[0] that    *)
(* results[1] has too, in ascending order of the bucket                    *)
merged_index(q2, q4) == quarter_index(q2) \cap quarter_index(q4)

SetMin(S) == CHOOSE x \in S : \A y \in S : x <= y
RECURSIVE Ascending(_)
Ascending(S) ==
    IF S = {} THEN <<>> ELSE <<SetMin(S)>> \o Ascending(S \ {SetMin(S)})

merged_row(q2, q4, b) ==
    [speed |-> b,
     drift |-> FSub(quarter_row(q4, b).avg, quarter_row(q2, b).avg),
     bin_count |-> quarter_row(q2, b).bin_count + quarter_row(q4, b).bin_count]

merged(q2, q4) ==
    [i \in 1..Cardinality(merged_index(q2, q4)) |->
        merged_row(q2, q4, Ascending(merged_index(q2, q4))[i])]

(* Of the four columns returned, 'HR drift (BPM)' and 'bin_count' are the  *)
(* two the program reads again; 'HR drift (%)' and 'HR drift CI(95%)       *)
(* width' are derived from the same rows and are not carried.              *)
calculate_cardiac_drift_in_bins(workout_data) ==
    merged(Q2(bin_speed(workout_data), Len(workout_data)),
           Q4(bin_speed(workout_data), Len(workout_data)))

---------------------------------------------------------------------------
(* save_decision_to_json.  The file workout_history.json is missing, or    *)
(* holds text that is not JSON, or JSON that is not a list, or a list.     *)
(* json.dump writes the keys of a dict as strings; the values (str, int,   *)
(* float by repr) read back as they were written.                          *)

MissingFile == [kind |-> "missing", items |-> <<>>]
CorruptFile == [kind |-> "corrupt", items |-> <<>>]
NotAListFile == [kind |-> "not_list", items |-> <<>>]
ListFile(items) == [kind |-> "list", items |-> items]

JsonKey(k) == [str |-> TRUE, v |-> k.v]
JsonDetails(details) ==
    [k \in {JsonKey(j) : j \in DOMAIN details} |->
        details[CHOOSE j \in DOMAIN details : JsonKey(j) = k]]
JsonValue(entry) == [entry EXCEPT !.drift_details = JsonDetails(entry.drift_details)]
json_dump(history) == [i \in 1..Len(history) |-> JsonValue(history[i])]

(* a variant that never reads the file *)
FreshHistory(file, entry) == Ok(<<entry>>)

(* a variant that starts a new list when the file cannot be used *)
RepairedHistory(file, entry) ==
    IF file.kind = "list" THEN Ok(Append(file.items, entry)) ELSE Ok(<<entry>>)

(* history = [] ; if os.path.exists: history = json.load(f)               *)
(* and history.append(decision): json.load raises on text that is not     *)
(* JSON, and what it returns has no append unless it is a list            *)
AppendedHistory(file, entry) ==
    IF file.kind = "missing" THEN Ok(<<entry>>)
    ELSE IF file.kind = "corrupt" THEN Raise("JSONDecodeError")
    ELSE IF file.kind = "not_list" THEN Raise("AttributeError")
    ELSE Ok(Append(file.items, entry))

(* the file after the call, the exception the call ends with, and whether *)
(* open(file_path, 'w') was reached                                       *)
save_decision_to_json(entry, file) ==
    IF AppendedHistory(file, entry).ok
    THEN [file |-> ListFile(json_dump(AppendedHistory(file, entry).val)),
          err |-> "none", written |-> 1]
    ELSE [file |-> file, err |-> AppendedHistory(file, entry).err, written |-> 0]

---------------------------------------------------------------------------
(* The inputs considered.                                                  *)

MaxRemainder == 3   \* workouts of 4 * q + r samples, r in 0 .. MaxRemainder
MaxSpread == 3      \* heart-rate noise of up to MaxSpread bpm
MaxFields == 4      \* duration strings of up to MaxFields fields
MaxBuckets == 2     \* drift tables of up to MaxBuckets rows
MaxRuns == 2        \* runs of the program, one after the other

QuarterSizes == {26, 52}
Lengths == {4 * q + r : q \in QuarterSizes, r \in 0..MaxRemainder}

(* the samples at and beside the ends of the two slices *)
Holes(n) == {-1, n \div 4 - 1, n \div 4, n \div 2 - 1, n \div 2,
             (3 * n) \div 4 - 1, (3 * n) \div 4, n - 1}

WorkoutParams ==
    {[n |-> n, hole |-> h, slow_every |-> se, spread |-> sp, noise_every |-> ne,
      gain |-> g] :
        n \in Lengths, h \in UNION {Holes(m) : m \in Lengths}, se \in {0, 2, 4},
        sp \in 0..MaxSpread, ne \in {2, 5}, g \in {0, 6}}

(* sample i (from 0): a slow pace (9.5 or 9.9 km/h) at the hole and at     *)
(* every slow_every-th sample, else a fast one (10.0, 10.2 or 10.4 km/h);  *)
(* heart rate 140, plus gain in the second half, plus spread at one        *)
(* sample in noise_every                                                   *)
SampleAt(p, i) ==
    [hr |-> 140 + (IF i >= p.n \div 2 THEN p.gain ELSE 0)
                + (IF i % p.noise_every = 1 THEN p.spread ELSE 0),
     speed |-> IF i = p.hole \/ (p.slow_every > 0 /\ i % p.slow_every = 0)
               THEN 95 + 4 * ((i \div 2) % 2)
               ELSE 100 + 2 * (i % 3)]
Workout(p) == [j \in 1..p.n |-> SampleAt(p, j - 1)]

FieldChoices ==
    { <<>>, <<"0", "0">>, <<"0", "1">>, <<"5", "2">>, <<"3", "4">>, <<"5", "9">>,
      <<"7">>, <<" ", "2">>, <<"x", "x">>, <<"-", "1">> }
RECURSIVE Join(_)
Join(fields) ==
    IF Len(fields) = 1 THEN fields[1]
    ELSE fields[1] \o <<":">> \o Join(Tail(fields))
DurationStrings ==
    {Join(fs) : fs \in UNION {[1..k -> FieldChoices] : k \in 1..MaxFields}}

Thresholds == {3, 4, 5, 6, 8}
DriftValues ==
    {FFromInt(k) : k \in Thresholds \cup {0, 9}}
    \cup {FPred(FFromInt(k)) : k \in Thresholds}
    \cup {FSucc(FFromInt(k)) : k \in Thresholds}
    \cup {FDivInt(167, 28), FDivInt(-3, 2), FDivInt(29, 10), FDivInt(71, 10)}
MoreDriftValues == {FDivInt(167, 28), FDivInt(-3, 2), FFromInt(3), FDivInt(71, 10)}
BinCounts == {63, 83}
DurationValues == {4, 112}

TableRow(i, d, c) == [speed |-> 90 + 5 * i, drift |-> d, bin_count |-> c]
RECURSIVE DriftTablesOf(_)
DriftTablesOf(k) ==
    IF k = 0 THEN {<<>>}
    ELSE IF k = 1 THEN {<<TableRow(1, d, c)>> : d \in DriftValues, c \in BinCounts}
    ELSE {Append(t, TableRow(k, d, c)) :
            t \in DriftTablesOf(k - 1), d \in MoreDriftValues, c \in BinCounts}
DriftTables == UNION {DriftTablesOf(k) : k \in 0..MaxBuckets}

Str_01_52_34 == <<"0", "1", ":", "5", "2", ":", "3", "4">>
Str_01_52 == <<"0", "1", ":", "5", "2">>
Str_01_xx_00 == <<"0", "1", ":", "x", "x", ":", "0", "0">>

Csv(readable, has_attributes, duration, has_columns, rows) ==
    [readable |-> readable, has_attributes |-> has_attributes, Duration |-> duration,
     Date |-> "2025-06-01", has_columns |-> has_columns, rows |-> rows]
Steady(n, slow_every, gain) ==
    Workout([n |-> n, hole |-> -1, slow_every |-> slow_every, spread |-> 1,
             noise_every |-> 5, gain |-> gain])
CsvFiles ==
    { Csv(FALSE, FALSE, <<>>, FALSE, <<>>),                       \* no such file
      Csv(TRUE, FALSE, <<>>, TRUE, Steady(104, 0, 2)),            \* no Duration, Date
      Csv(TRUE, TRUE, Str_01_xx_00, TRUE, Steady(104, 0, 2)),     \* bad duration
      Csv(TRUE, TRUE, Str_01_52_34, FALSE, <<>>),                 \* no HR, Speed
      Csv(TRUE, TRUE, Str_01_52, TRUE, Steady(104, 0, 2)),
      Csv(TRUE, TRUE, Str_01_52_34, TRUE, Steady(208, 2, 4)),
      Csv(TRUE, TRUE, Str_01_52_34, TRUE, Steady(104, 0, 6)),
      Csv(TRUE, TRUE, Str_01_52_34, TRUE, Steady(104, 0, 9)),
      Csv(TRUE, TRUE, Str_01_52_34, TRUE, Steady(104, 2, 6)) }    \* no reliable bucket

---------------------------------------------------------------------------
(* __main__, a statement at a time.                                        *)

NoFrame == [has_columns |-> FALSE, rows |-> <<>>]
NoAttributes == [Duration |-> <<>>, Date |-> ""]
NoDecision == [decision |-> "none"]
NoFile == Csv(FALSE, FALSE, <<>>, FALSE, <<>>)

Ended == {"done", "exit_1", "raised"}

(* a process starts: python zone2-analyzer.py <csv> *)
StartRun ==
    /\ pc \in Ended \cup {"start"}
    /\ runs < MaxRuns
    /\ \E f \in CsvFiles : argv' = f
    /\ pc' = "read_csv"
    /\ exc' = "none"
    /\ data' = NoFrame /\ attributes' = NoAttributes /\ date' = "" /\ minutes' = 0
    /\ drift_matrix' = <<>> /\ decision' = NoDecision
    /\ history_at_start' = workout_history
    /\ writes' = 0
    /\ runs' = runs + 1
    /\ UNCHANGED <<workout_history, saved>>

(* data = pd.read_csv(csv_file_path, skiprows=2), exit(1) on any exception *)
ReadCsv ==
    /\ pc = "read_csv"
    /\ IF argv.readable
       THEN data' = [has_columns |-> argv.has_columns, rows |-> argv.rows]
            /\ pc' = "read_attributes"
       ELSE data' = data /\ pc' = "exit_1"
    /\ UNCHANGED <<exc, argv, attributes, date, minutes, drift_matrix, decision,
                   workout_history, history_at_start, saved, writes, runs>>

(* attributes = pd.read_csv(...).iloc[0, :][['Duration', 'Date']]; date = ... *)
ReadAttributes ==
    /\ pc = "read_attributes"
    /\ IF argv.has_attributes
       THEN /\ attributes' = [Duration |-> argv.Duration, Date |-> argv.Date]
            /\ date' = argv.Date
            /\ pc' = "parse_duration" /\ exc' = exc
       ELSE /\ pc' = "raised" /\ exc' = "KeyError"
            /\ UNCHANGED <<attributes, date>>
    /\ UNCHANGED <<argv, data, minutes, drift_matrix, decision,
                   workout_history, history_at_start, saved, writes, runs>>

(* a variant that goes on with 0 minutes when the parser raises *)
ParseDurationDefaulting ==
    /\ pc = "parse_duration"
    /\ minutes' = IF get_minutes_from_duration_string(attributes.Duration).ok
                  THEN get_minutes_from_duration_string(attributes.Duration).val
                  ELSE 0
    /\ pc' = "estimate_drift"
    /\ UNCHANGED <<exc, argv, data, attributes, date, drift_matrix, decision,
                   workout_history, history_at_start, saved, writes, runs>>

(* minutes = get_minutes_from_duration_string(attributes['Duration']) *)
ParseDuration ==
    /\ pc = "parse_duration"
    /\ IF get_minutes_from_duration_string(attributes.Duration).ok
       THEN /\ minutes' = get_minutes_from_duration_string(attributes.Duration).val
            /\ pc' = "estimate_drift" /\ exc' = exc
       ELSE /\ pc' = "raised"
            /\ exc' = get_minutes_from_duration_string(attributes.Duration).err
            /\ minutes' = minutes
    /\ UNCHANGED <<argv, data, attributes, date, drift_matrix, decision,
                   workout_history, history_at_start, saved, writes, runs>>

(* drift_matrix = calculate_cardiac_drift_in_bins(data) *)
EstimateDrift ==
    /\ pc = "estimate_drift"
    /\ IF data.has_columns
       THEN /\ drift_matrix' = calculate_cardiac_drift_in_bins(data.rows)
            /\ pc' = "generate_decision" /\ exc' = exc
       ELSE /\ pc' = "raised" /\ exc' = "KeyError"
            /\ drift_matrix' = drift_matrix
    /\ UNCHANGED <<argv, data, attributes, date, minutes, decision,
                   workout_history, history_at_start, saved, writes, runs>>

(* decision = generate_workout_decisions(drift_matrix, minutes, date) *)
GenerateDecision ==
    /\ pc = "generate_decision"
    /\ decision' = generate_workout_decisions(drift_matrix, minutes, date)
    /\ pc' = "save_decision"
    /\ UNCHANGED <<exc, argv, data, attributes, date, minutes, drift_matrix,
                   workout_history, history_at_start, saved, writes, runs>>

(* save_decision_to_json(decision) *)
SaveDecision ==
    /\ pc = "save_decision"
    /\ workout_history' = save_decision_to_json(decision, workout_history).file
    /\ writes' = writes + save_decision_to_json(decision, workout_history).written
    /\ exc' = save_decision_to_json(decision, workout_history).err
    /\ IF save_decision_to_json(decision, workout_history).err = "none"
       THEN saved' = Append(saved, decision) /\ pc' = "print"
       ELSE saved' = saved /\ pc' = "raised"
    /\ UNCHANGED <<argv, data, attributes, date, minutes, drift_matrix, decision,
                   history_at_start, runs>>

(* print('Details:') ... print(decision['notes']) *)
PrintDecision ==
    /\ pc = "print"
    /\ pc' = "done"
    /\ UNCHANGED <<exc, argv, data, attributes, date, minutes, drift_matrix, decision,
                   workout_history, history_at_start, saved, writes, runs>>

Init ==
    /\ pc = "start"
    /\ workout_history \in {MissingFile, CorruptFile, NotAListFile, ListFile(<<>>)}
    /\ exc = "none" /\ argv = NoFile
    /\ data = NoFrame /\ attributes = NoAttributes /\ date = "" /\ minutes = 0
    /\ drift_matrix = <<>> /\ decision = NoDecision
    /\ history_at_start = workout_history /\ saved = <<>> /\ writes = 0 /\ runs = 0

Next ==
    \/ StartRun \/ ReadCsv \/ ReadAttributes \/ ParseDuration \/ EstimateDrift
    \/ GenerateDecision \/ SaveDecision \/ PrintDecision

Spec == Init /\ [][Next]_vars

---------------------------------------------------------------------------
(* The three functions on their own: a run stopped in front of the call,   *)
(* with the arguments drawn from the inputs above.                         *)

InputDate == "2025-06-01"

InitParse ==
    /\ pc = "parse_duration"
    /\ \E s \in DurationStrings :
          /\ argv = Csv(TRUE, TRUE, s, TRUE, <<>>)
          /\ attributes = [Duration |-> s, Date |-> InputDate]
    /\ data = [has_columns |-> TRUE, rows |-> <<>>]
    /\ date = InputDate /\ minutes = 0 /\ exc = "none"
    /\ drift_matrix = <<>> /\ decision = NoDecision
    /\ workout_history = MissingFile /\ history_at_start = MissingFile
    /\ saved = <<>> /\ writes = 0 /\ runs = 1

SpecParse == InitParse /\ [][ParseDuration]_vars

InitDrift ==
    /\ pc = "estimate_drift"
    /\ \E p \in WorkoutParams :
          /\ argv = Csv(TRUE, TRUE, Str_01_52_34, TRUE, Workout(p))
          /\ data = [has_columns |-> TRUE, rows |-> Workout(p)]
    /\ attributes = [Duration |-> Str_01_52_34, Date |-> InputDate]
    /\ date = InputDate /\ minutes = 112 /\ exc = "none"
    /\ drift_matrix = <<>> /\ decision = NoDecision
    /\ workout_history = MissingFile /\ history_at_start = MissingFile
    /\ saved = <<>> /\ writes = 0 /\ runs = 1

SpecDrift == InitDrift /\ [][EstimateDrift]_vars

InitDecide ==
    /\ pc = "generate_decision"
    /\ drift_matrix \in DriftTables
    /\ minutes \in DurationValues
    /\ argv = Csv(TRUE, TRUE, <<>>, TRUE, <<>>)
    /\ data = [has_columns |-> TRUE, rows |-> <<>>]
    /\ attributes = [Duration |-> <<>>, Date |-> InputDate]
    /\ date = InputDate /\ exc = "none" /\ decision = NoDecision
    /\ workout_history = MissingFile /\ history_at_start = MissingFile
    /\ saved = <<>> /\ writes = 0 /\ runs = 1

SpecDecide == InitDecide /\ [][GenerateDecision]_vars

---------------------------------------------------------------------------
(* What the claims say, in the model's terms.                              *)

Returned == pc = "save_decision"       \* generate_workout_decisions has just returned
Avg == avg_drift(drift_matrix)
Three == DFromInt(3)
Five == DFromInt(5)
Eight == DFromInt(8)

C2_EmptyTableRejected ==
    (pc \in {"save_decision", "print", "done"} /\ drift_matrix = <<>>) =>
        decision = NoDecision /\ workout_history = history_at_start

(* C3: while the file is missing or a list, it holds exactly the decisions *)
(* saved so far, in the order they were saved, each as JSON writes it; and *)
(* a save that returns adds one element at the end and keeps the others.   *)
IsPrefix(x, y) == Len(x) <= Len(y) /\ SubSeq(y, 1, Len(x)) = x
C3_HoldsTheSaved ==
    workout_history.kind \in {"missing", "list"} =>
        /\ Len(workout_history.items) = Len(saved)
        /\ \A i \in 1..Len(saved) : workout_history.items[i] = JsonValue(saved[i])
        /\ (workout_history.kind = "missing" => saved = <<>>)
C3_AppendOnly ==
    /\ []C3_HoldsTheSaved
    /\ [][saved' # saved =>
            /\ Len(workout_history'.items) = Len(workout_history.items) + 1
            /\ IsPrefix(workout_history.items, workout_history'.items)
            /\ workout_history'.items[Len(workout_history'.items)] = JsonValue(decision)]_vars

C3_Witness ==
    /\ workout_history.kind = "list" /\ Len(workout_history.items) = 2
    /\ history_at_start.kind = "list" /\ Len(history_at_start.items) = 1
    /\ workout_history.items[1] # workout_history.items[2]

(* C4: a bucket is a key of the drift table exactly if, in the second-     *)
(* quarter slice [n//4, n//2) and in the fourth-quarter slice [3n//4, n),  *)
(* it has more than 25 samples and a confidence interval narrower than 1.  *)
SliceQ2(n) == {i \in 0..(n - 1) : n \div 4 <= i /\ i < n \div 2}
SliceQ4(n) == {i \in 0..(n - 1) : (3 * n) \div 4 <= i}
BucketAt(rows, i) == (rows[i + 1].speed \div 5) * 5
InBucket(rows, slice, b) == {i \in slice : BucketAt(rows, i) = b}
RECURSIVE SumOver(_, _, _)
SumOver(values, rows, idx) ==
    IF values = {} THEN [sum |-> 0, sumsq |-> 0]
    ELSE [sum |-> SetMin(values) * Cardinality({i \in idx : rows[i + 1].hr = SetMin(values)})
                  + SumOver(values \ {SetMin(values)}, rows, idx).sum,
          sumsq |-> SetMin(values) * SetMin(values)
                      * Cardinality({i \in idx : rows[i + 1].hr = SetMin(values)})
                    + SumOver(values \ {SetMin(values)}, rows, idx).sumsq]
SliceStats(rows, idx) ==
    [count |-> Cardinality(idx),
     sum |-> SumOver({rows[i + 1].hr : i \in idx}, rows, idx).sum,
     sumsq |-> SumOver({rows[i + 1].hr : i \in idx}, rows, idx).sumsq]
PassesIn(rows, slice, b) ==
    /\ Cardinality(InBucket(rows, slice, b)) > 25
    /\ width_below_1(SliceStats(rows, InBucket(rows, slice, b)))
AllBuckets(rows) == {BucketAt(rows, i) : i \in 0..(Len(rows) - 1)}
Estimated == pc = "generate_decision"
C4_KeysAreReliableInBoth ==
    Estimated =>
        /\ Speeds(drift_matrix) \subseteq AllBuckets(data.rows)
        /\ Len(drift_matrix) = Cardinality(Speeds(drift_matrix))
        /\ \A b \in AllBuckets(data.rows) :
              b \in Speeds(drift_matrix) <=>
                 /\ PassesIn(data.rows, SliceQ2(Len(data.rows)), b)
                 /\ PassesIn(data.rows, SliceQ4(Len(data.rows)), b)

(* one bucket kept, another one dropped for its 25 samples in the fourth   *)
(* quarter though it passes in the second                                  *)
C4_Witness ==
    /\ Estimated /\ Len(drift_matrix) = 1
    /\ \E b \in AllBuckets(data.rows) \ Speeds(drift_matrix) :
          /\ PassesIn(data.rows, SliceQ2(Len(data.rows)), b)
          /\ Cardinality(InBucket(data.rows, SliceQ4(Len(data.rows)), b)) = 25

(* C5: a run that finds a history file it cannot read as a list leaves the *)
(* file as it found it, and does not get past the save.                    *)
Unreadable(file) == file.kind \in {"corrupt", "not_list"}
C5_NoAutoRepair ==
    Unreadable(history_at_start) =>
        /\ workout_history = history_at_start
        /\ pc \notin {"print", "done"}
        /\ (pc = "raised" /\ decision # NoDecision
                => exc \in {"JSONDecodeError", "AttributeError"})

C5_Witness ==
    /\ pc = "raised" /\ exc = "JSONDecodeError" /\ decision # NoDecision
    /\ workout_history = CorruptFile

(* C6: a duration string that is not three numeric fields HH:MM:SS makes   *)
(* the parser raise; it never yields minutes.                              *)
Parsed == pc # "parse_duration"
ThreeNumericFields(s) ==
    /\ Len(split(s)) = 3
    /\ \A i \in 1..3 : AllDigits(split(s)[i])
C6_MalformedRaises ==
    (Parsed /\ ~ThreeNumericFields(attributes.Duration)) => pc = "raised"

(* C7: a well-formed HH:MM:SS yields HH * 60 + MM, whatever SS is.         *)
TwoDigits(s, i) == s[i] \in Digits /\ s[i + 1] \in Digits
TwoDigitValue(s, i) == 10 * DigitVal(s[i]) + DigitVal(s[i + 1])
WellFormed(s) ==
    /\ Len(s) = 8 /\ s[3] = ":" /\ s[6] = ":"
    /\ TwoDigits(s, 1) /\ TwoDigits(s, 4) /\ TwoDigits(s, 7)
    /\ TwoDigitValue(s, 4) <= 59 /\ TwoDigitValue(s, 7) <= 59
C7_MinutesOfWellFormed ==
    (Parsed /\ WellFormed(attributes.Duration)) =>
        /\ pc = "estimate_drift"
        /\ minutes = TwoDigitValue(attributes.Duration, 1) * 60
                     + TwoDigitValue(attributes.Duration, 4)

C7_Witness ==
    pc = "estimate_drift" /\ attributes.Duration = Str_01_52_34 /\ minutes = 112

(* C8: the weighted average lies between the least and the greatest drift *)
(* of the table.                                                           *)
DAbs(x) == [x EXCEPT !.neg = FALSE]
LeastDrift(rows) ==
    rows[CHOOSE i \in 1..Len(rows) :
            \A j \in 1..Len(rows) : DLeq(rows[i].drift, rows[j].drift)].drift
GreatestDrift(rows) ==
    rows[CHOOSE i \in 1..Len(rows) :
            \A j \in 1..Len(rows) : DLeq(rows[j].drift, rows[i].drift)].drift
GreatestAbsDrift(rows) ==
    DAbs(rows[CHOOSE i \in 1..Len(rows) :
            \A j \in 1..Len(rows) : DLeq(DAbs(rows[j].drift), DAbs(rows[i].drift))].drift)
C8_WithinMinMax ==
    (Returned /\ drift_matrix # <<>>) =>
        /\ DLeq(LeastDrift(drift_matrix), Avg)
        /\ DLeq(Avg, GreatestDrift(drift_matrix))

(* C8 as amended: between the least and the greatest drift up to the       *)
(* rounding of the float64 operations, (K + 1) * 2^-52 times the greatest  *)
(* magnitude of a drift for a table of K buckets; with a single bucket     *)
(* it is that bucket's drift.                                              *)
TwoToMinus52 == [neg |-> FALSE, mag |-> <<1>>, exp |-> -52]
Slack(rows) ==
    DMul(DMul(DFromInt(Len(rows) + 1), TwoToMinus52), GreatestAbsDrift(rows))
C8_WithinMinMaxRounded ==
    (Returned /\ drift_matrix # <<>>) =>
        /\ DLeq(DAdd(LeastDrift(drift_matrix), DNeg(Slack(drift_matrix))), Avg)
        /\ DLeq(Avg, DAdd(GreatestDrift(drift_matrix), Slack(drift_matrix)))
        /\ (Len(drift_matrix) = 1 => Avg = drift_matrix[1].drift)

C8_Witness ==
    /\ Returned /\ Len(drift_matrix) = 2
    /\ DLess(LeastDrift(drift_matrix), Avg)
    /\ DLess(Avg, GreatestDrift(drift_matrix))

(* C9: a run writes the history at most once, and only once the decision   *)
(* exists; a run whose input cannot be read, lacks the attributes or the   *)
(* columns, or carries a duration the parser rejects, ends without a       *)
(* decision and with the history as it found it; a run that is done has    *)
(* been through every stage.                                               *)
BadInput ==
    \/ ~argv.readable
    \/ ~argv.has_attributes
    \/ ~get_minutes_from_duration_string(argv.Duration).ok
    \/ ~argv.has_columns
C9_AllOrNothing ==
    /\ writes <= 1
    /\ (writes = 1 => pc \in {"print", "done"} /\ decision # NoDecision)
    /\ (workout_history # history_at_start => writes = 1)
    /\ (pc \in Ended /\ BadInput =>
            /\ pc # "done"
            /\ decision = NoDecision
            /\ workout_history = history_at_start)
    /\ (pc = "done" =>
            /\ data.has_columns /\ attributes.Duration = argv.Duration
            /\ decision # NoDecision /\ writes = 1
            /\ workout_history.items[Len(workout_history.items)] = JsonValue(decision))

(* a run ended by the parser after a run that saved *)
C9_Witness ==
    /\ pc = "raised" /\ exc = "ValueError"
    /\ workout_history.kind = "list" /\ Len(workout_history.items) = 1
    /\ workout_history = history_at_start

=============================================================================
